---- MODULE Spec2Model ----
(***************************************************************************)
(* AudioService (src/unnamed/part_000): the look-ahead beat scheduler, the *)
(* 16-step pattern generator, the mix bus and the one-shot sound effects,  *)
(* together with the two collaborators its behaviour depends on: the audio *)
(* clock (AudioContext.currentTime) and the browser's timer queue          *)
(* (window.setTimeout / window.clearTimeout).                              *)
(*                                                                         *)
(* Time is exact: one model tick is 1/9000 s, the coarsest unit in which   *)
(* every duration of the source is a whole number (a sixteenth note at 135 *)
(* bpm is 1/9 s, the open hi-hat lasts 0.03 s, the timer sleeps 0.025 s).  *)
(* Arithmetic is over the rationals: the rounding of IEEE doubles is not   *)
(* modelled.  Frequencies are in 1/200 Hz, so that half of a scale note is *)
(* a whole number.                                                         *)
(***************************************************************************)
EXTENDS Integers, Sequences, FiniteSets, TLC

VARIABLES
    backend,          \* environment: window.AudioContext can be constructed
    now,              \* environment: ctx.currentTime, in ticks
    timers,           \* environment: the pending window.setTimeout callbacks
    ctx,              \* this.ctx !== null
    isMuted,          \* this.isMuted
    isPlaying,        \* this.isPlaying
    tempo,            \* this.tempo
    nextNoteTime,     \* this.nextNoteTime, in ticks
    current16thNote,  \* this.current16thNote
    timerID,          \* this.timerID (0: undefined)
    intensity,        \* this.intensity
    masterGain,       \* this.masterGain: the node and the level its gain heads to
    reverbNode,       \* this.reverbNode: the node and how many impulse buffers
                      \* createImpulseResponse has built for it
    engine,           \* the audio engine: every voice handed to it so far, with
                      \* its parameters; the log is kept where recording is TRUE
    gainCalls,        \* the writes to masterGain.gain made by the last handler
    voices,           \* the voices the last handler handed to the audio engine
    dispatched,       \* the scheduleNote(beat, time) calls of the last handler
    lastOp,           \* the last handler that ran: its argument, whether it threw,
                      \* and for startBGM the transport state it was called in
    session,          \* history of the current transport session
    gameState,        \* App: the gameState of useState<GameState>
    startGamePc,      \* App: the await at which a startGame call is suspended
    score,            \* App: the score of useState<GameScore>
    scoreEvents       \* the updateScore calls applied since the score was zeroed

vars == <<backend, now, timers, ctx, isMuted, isPlaying, tempo, nextNoteTime,
          current16thNote, timerID, intensity, masterGain, reverbNode, engine,
          gainCalls, voices, dispatched, lastOp, session,
          gameState, startGamePc, score, scoreEvents>>

\* The state of the application around the audio service.
appVars == <<gameState, startGamePc, score, scoreEvents>>

---------------------------------------------------------------------------
(* Units and bounds *)

TicksPerSecond == 9 * 1000

Ms(n) == (n * TicksPerSecond) \div 1000

Hz(n) == n * 200

\* The audio clock advances in steps of one timer period, up to MaxNow periods.
MaxNow == 20

\* Math.random() is drawn from {0/RandRes, ..., (RandRes-1)/RandRes}.
RandRes == 6

\* The loop body (scheduleNote; nextNote) is applied up to MaxCycleSteps times
\* under SpecCycle.
MaxCycleSteps == 17

MaxEngineNow == 5

MaxEngineVoices == 5

\* The clock horizon of SpecSession, in quanta of lookahead (2 s).
MaxSessionNow == 80

\* Under SpecLive a due callback runs at most MaxLag clock quanta late.
MaxLag == 3

---------------------------------------------------------------------------
(* Fields of AudioService *)

lookahead == Ms(25)

scheduleAheadTime == Ms(100)

scale == <<26162, 31112, 34922, 39200, 46616, 52326>>

Intensities == {"low", "high"}

Rand == 0 .. (RandRes - 1)

\* Math.floor(Math.random() * n) for the draw u / RandRes
floorRandom(u, n) == (u * n) \div RandRes

\* The object's fields and the engine's queues, threaded through one handler.
Self ==
    [ ctx |-> ctx, isMuted |-> isMuted, isPlaying |-> isPlaying,
      tempo |-> tempo, nextNoteTime |-> nextNoteTime,
      current16thNote |-> current16thNote, timerID |-> timerID,
      intensity |-> intensity, masterGain |-> masterGain,
      reverbNode |-> reverbNode, engine |-> engine,
      timers |-> timers, session |-> session,
      gainCalls |-> <<>>, voices |-> <<>>, dispatched |-> <<>>, threw |-> FALSE,
      over |-> "" ]

---------------------------------------------------------------------------
(* window.setTimeout / window.clearTimeout *)

timerIds(w) == { t.id : t \in w.timers }

freshTimerId(w) == CHOOSE i \in 1 .. (Cardinality(w.timers) + 1) : i \notin timerIds(w)

clearTimeout(w, id) == [w EXCEPT !.timers = { t \in w.timers : t.id # id }]

setTimeout(w) ==
    LET id == freshTimerId(w) IN
    [w EXCEPT !.timers = w.timers \cup {[id |-> id, due |-> now + lookahead, stale |-> FALSE]},
              !.timerID = id]

---------------------------------------------------------------------------
(* Synth instruments and sound effects: one voice handed to the engine *)

voice(inst, time, freq, dur) == [inst |-> inst, start |-> time, freq |-> freq, dur |-> dur]

\* source.start(time): from here on the voice belongs to the engine.
emit(w, v) ==
    [w EXCEPT !.voices = Append(w.voices, v),
              !.engine.voices = IF w.engine.recording THEN @ \cup {v} ELSE @]

playKick(w, time) == emit(w, voice("kick", time, Hz(150), Ms(500)))

playSnare(w, time) == emit(w, voice("snare", time, 0, Ms(200)))

playHiHat(w, time, duration) == emit(w, voice("hihat", time, 0, duration))

playBass(w, time, freq, duration) == emit(w, voice("bass", time, freq, duration))

playSynth(w, time, freq, duration) == emit(w, voice("synth", time, freq, duration))

\* Variant: the effect keeps its start time in the transport's time field.
playSliceSfx_clobber(w) ==
    IF ~w.ctx \/ w.isMuted THEN w
    ELSE [emit(w, voice("slice", now, Hz(1200), Ms(150))) EXCEPT !.nextNoteTime = now]

playSliceSfx(w) ==
    IF ~w.ctx \/ w.isMuted THEN w
    ELSE emit(w, voice("slice", now, Hz(1200), Ms(150)))

\* Variant: the bomb effect does not look at the muted flag.
playBombSfx_ignoreMute(w) ==
    IF ~w.ctx THEN w
    ELSE emit(w, voice("bomb", now, 0, Ms(400)))

\* Variant: the bomb effect sounds only while the music is playing.
playBombSfx_needsBgm(w) ==
    IF ~w.ctx \/ w.isMuted \/ ~w.isPlaying THEN w
    ELSE emit(w, voice("bomb", now, 0, Ms(400)))

playBombSfx(w) ==
    IF ~w.ctx \/ w.isMuted THEN w
    ELSE emit(w, voice("bomb", now, 0, Ms(400)))

BgmInstruments == {"kick", "snare", "hihat", "bass", "synth"}

---------------------------------------------------------------------------
(* init, toggleMute *)

\* Gain levels are in hundredths.
NoGain == [node |-> FALSE, level |-> 0]

NoReverb == [node |-> FALSE, impulses |-> 0]

\* The buffer's samples are random; only the fact that one was built is kept.
createImpulseResponse(r) == [r EXCEPT !.impulses = r.impulses + 1]

\* Variant: init builds the graph on every call (no `if (!this.ctx)`).
init_always(w) ==
    IF ~backend THEN [w EXCEPT !.threw = TRUE]
    ELSE [w EXCEPT !.ctx = TRUE,
                   !.masterGain = [node |-> TRUE, level |-> 40],
                   !.gainCalls = Append(w.gainCalls, [call |-> "value", level |-> 40]),
                   !.reverbNode = createImpulseResponse([w.reverbNode EXCEPT !.node = TRUE])]

\* new AudioContext() throws where the browser has no audio backend.
init(w) ==
    IF w.ctx THEN w
    ELSE IF ~backend THEN [w EXCEPT !.threw = TRUE]
    ELSE [w EXCEPT !.ctx = TRUE,
                   !.masterGain = [node |-> TRUE, level |-> 40],
                   !.gainCalls = Append(w.gainCalls, [call |-> "value", level |-> 40]),
                   !.reverbNode = createImpulseResponse([w.reverbNode EXCEPT !.node = TRUE])]

\* Variant: the mute is a hard cut (gain.value = ...) instead of a ramp.
toggleMute_hardCut(w) ==
    LET m == ~w.isMuted
        target == IF m THEN 0 ELSE 40
    IN  IF w.masterGain.node
        THEN [w EXCEPT !.isMuted = m,
                       !.masterGain = [node |-> TRUE, level |-> target],
                       !.gainCalls = Append(w.gainCalls, [call |-> "value", level |-> target])]
        ELSE [w EXCEPT !.isMuted = m]

toggleMute(w) ==
    LET m == ~w.isMuted
        target == IF m THEN 0 ELSE 40
    IN  IF w.masterGain.node
        THEN [w EXCEPT !.isMuted = m,
                       !.masterGain = [node |-> TRUE, level |-> target],
                       !.gainCalls = Append(w.gainCalls,
                                            [call |-> "setTargetAtTime", level |-> target])]
        ELSE [w EXCEPT !.isMuted = m]

---------------------------------------------------------------------------
(* The pattern generator *)

\* Variant: the sparse kick falls on beat 8 instead of beat 10.
kickPart_beat8(w, beatNumber, time) ==
    IF w.intensity = "high"
    THEN IF beatNumber % 4 = 0 THEN playKick(w, time) ELSE w
    ELSE IF beatNumber = 0 \/ beatNumber = 8 THEN playKick(w, time) ELSE w

kickPart(w, beatNumber, time) ==
    IF w.intensity = "high"
    THEN IF beatNumber % 4 = 0 THEN playKick(w, time) ELSE w
    ELSE IF beatNumber = 0 \/ beatNumber = 10 THEN playKick(w, time) ELSE w

\* Variant: the snare falls on every fourth beat (% 4 instead of % 8).
snarePart_mod4(w, beatNumber, time) ==
    IF beatNumber % 4 = 0 /\ beatNumber # 0 THEN playSnare(w, time) ELSE w

snarePart(w, beatNumber, time) ==
    IF beatNumber % 8 = 4 THEN playSnare(w, time) ELSE w

\* Variant: the odd-step hi-hat is played in both intensities.
hiHatPart_allSteps(w, beatNumber, time) ==
    IF beatNumber % 2 = 0 THEN playHiHat(w, time, Ms(50))
    ELSE playHiHat(w, time, Ms(30))

hiHatPart(w, beatNumber, time) ==
    IF beatNumber % 2 = 0 THEN playHiHat(w, time, Ms(50))
    ELSE IF w.intensity = "high" THEN playHiHat(w, time, Ms(30)) ELSE w

\* Variant: the high-intensity bass changes pitch at step 4 instead of 8.
bassPart_changeAt4(w, beatNumber, time) ==
    IF w.intensity = "high"
    THEN IF beatNumber % 2 = 0
         THEN playBass(w, time, (IF beatNumber < 4 THEN scale[1] ELSE scale[2]) \div 2, Ms(200))
         ELSE w
    ELSE IF beatNumber = 0 THEN playBass(w, time, scale[1] \div 2, Ms(2000)) ELSE w

bassPart(w, beatNumber, time) ==
    IF w.intensity = "high"
    THEN IF beatNumber % 2 = 0
         THEN playBass(w, time, (IF beatNumber < 8 THEN scale[1] ELSE scale[2]) \div 2, Ms(200))
         ELSE w
    ELSE IF beatNumber = 0 THEN playBass(w, time, scale[1] \div 2, Ms(2000)) ELSE w

\* Variant: the high-intensity arpeggio draws from the whole scale.
melodyPart_fullScale(w, beatNumber, time, u) ==
    IF w.intensity = "high"
    THEN IF beatNumber \in {0, 3, 6, 9, 12, 14}
         THEN playSynth(w, time, scale[floorRandom(u, Len(scale)) + 1], Ms(100))
         ELSE w
    ELSE IF beatNumber = 0 \/ beatNumber = 6 \/ beatNumber = 12
         THEN playSynth(w, time, scale[floorRandom(u, Len(scale)) + 1] * 2, Ms(500))
         ELSE w

melodyPart(w, beatNumber, time, u) ==
    IF w.intensity = "high"
    THEN IF beatNumber \in {0, 3, 6, 9, 12, 14}
         THEN playSynth(w, time, scale[floorRandom(u, 4) + 1], Ms(100))
         ELSE w
    ELSE IF beatNumber = 0 \/ beatNumber = 6 \/ beatNumber = 12
         THEN playSynth(w, time, scale[floorRandom(u, Len(scale)) + 1] * 2, Ms(500))
         ELSE w

\* Variant: the hi-hat of an odd step is played 10 ms after the step's time.
scheduleNote_swing(w0, beatNumber, time, u) ==
    LET w == [w0 EXCEPT !.dispatched = Append(w0.dispatched, [beat |-> beatNumber, time |-> time])]
    IN  IF w.isMuted THEN w
        ELSE melodyPart(bassPart(hiHatPart(snarePart(kickPart(w, beatNumber, time),
                 beatNumber, time), beatNumber,
                 IF beatNumber % 2 = 1 THEN time + Ms(10) ELSE time),
                 beatNumber, time), beatNumber, time, u)

scheduleNote(w0, beatNumber, time, u) ==
    LET w == [w0 EXCEPT !.dispatched = Append(w0.dispatched, [beat |-> beatNumber, time |-> time])]
    IN  IF w.isMuted THEN w
        ELSE melodyPart(bassPart(hiHatPart(snarePart(kickPart(w, beatNumber, time),
                 beatNumber, time), beatNumber, time), beatNumber, time), beatNumber, time, u)

---------------------------------------------------------------------------
(* The transport *)

\* 0.25 * (60.0 / tempo), in ticks
sixteenth(t) == ((60 * TicksPerSecond) \div t) \div 4

\* Variant: the next note time is taken from the clock read at the tick.
nextNote_fromClock(w) ==
    LET n == w.current16thNote + 1 IN
    [w EXCEPT !.nextNoteTime = now + sixteenth(w.tempo),
              !.current16thNote = IF n = 16 THEN 0 ELSE n,
              !.session.steps = w.session.steps + 1]

\* Variant: the step counter wraps one step early.
nextNote_wrap15(w) ==
    LET n == w.current16thNote + 1 IN
    [w EXCEPT !.nextNoteTime = w.nextNoteTime + sixteenth(w.tempo),
              !.current16thNote = IF n = 15 THEN 0 ELSE n,
              !.session.steps = w.session.steps + 1]

\* Variant: a step advances the time by half a sixteenth note.
nextNote_halfStep(w) ==
    LET n == w.current16thNote + 1 IN
    [w EXCEPT !.nextNoteTime = w.nextNoteTime + sixteenth(w.tempo) \div 2,
              !.current16thNote = IF n = 16 THEN 0 ELSE n,
              !.session.steps = w.session.steps + 1]

\* Variant: the step counter wraps one step late.
nextNote_wrap17(w) ==
    LET n == w.current16thNote + 1 IN
    [w EXCEPT !.nextNoteTime = w.nextNoteTime + sixteenth(w.tempo),
              !.current16thNote = IF n = 17 THEN 0 ELSE n,
              !.session.steps = w.session.steps + 1]

nextNote(w) ==
    LET n == w.current16thNote + 1 IN
    [w EXCEPT !.nextNoteTime = w.nextNoteTime + sixteenth(w.tempo),
              !.current16thNote = IF n = 16 THEN 0 ELSE n,
              !.session.steps = w.session.steps + 1]

\* Variant: one step per tick at most (if instead of while).
schedulerLoop_once(w, u) ==
    IF w.nextNoteTime < now + scheduleAheadTime
    THEN nextNote(scheduleNote(w, w.current16thNote, w.nextNoteTime, u))
    ELSE w

\* Variant: the look-ahead window is closed (<= instead of <).
RECURSIVE schedulerLoop_lte(_, _)
schedulerLoop_lte(w, u) ==
    IF w.nextNoteTime <= now + scheduleAheadTime
    THEN schedulerLoop_lte(nextNote(scheduleNote(w, w.current16thNote, w.nextNoteTime, u)), u)
    ELSE w

\* Variant: a step already in the past is skipped, not dispatched.
RECURSIVE schedulerLoop_skipLate(_, _)
schedulerLoop_skipLate(w, u) ==
    IF w.nextNoteTime < now + scheduleAheadTime
    THEN schedulerLoop_skipLate(
             nextNote(IF w.nextNoteTime >= now
                      THEN scheduleNote(w, w.current16thNote, w.nextNoteTime, u)
                      ELSE w), u)
    ELSE w

\* Variant: two steps per tick at most.
schedulerLoop_twice(w, u) == schedulerLoop_once(schedulerLoop_once(w, u), u)

RECURSIVE schedulerLoop(_, _)
schedulerLoop(w, u) ==
    IF w.nextNoteTime < now + scheduleAheadTime
    THEN schedulerLoop(nextNote(scheduleNote(w, w.current16thNote, w.nextNoteTime, u)), u)
    ELSE w

\* Variant: a scheduler that has fallen behind restarts the grid at the
\* current time.
scheduler_resync(w, u) ==
    IF ~w.isPlaying \/ ~w.ctx THEN w
    ELSE setTimeout(schedulerLoop(
             [w EXCEPT !.nextNoteTime = IF @ < now THEN now ELSE @], u))

\* Variant: a muted scheduler does not run the loop, it only re-arms.
scheduler_pauseWhenMuted(w, u) ==
    IF ~w.isPlaying \/ ~w.ctx THEN w
    ELSE IF w.isMuted THEN setTimeout(w)
    ELSE setTimeout(schedulerLoop(w, u))

\* Variant: the scheduler does not arm the next callback.
scheduler_noRearm(w, u) ==
    IF ~w.isPlaying \/ ~w.ctx THEN w
    ELSE schedulerLoop(w, u)

scheduler(w, u) ==
    IF ~w.isPlaying \/ ~w.ctx THEN w
    ELSE setTimeout(schedulerLoop(w, u))

\* Variant: stopping also removes the music voices that have not started yet.
stopBGM_cutoff(w) ==
    clearTimeout([w EXCEPT !.isPlaying = FALSE,
                           !.engine.voices = { v \in @ : v.start <= now \/ v.inst \notin BgmInstruments }],
                 w.timerID)

\* Variant: the pending tick is not cancelled.
stopBGM_noClear(w) == [w EXCEPT !.isPlaying = FALSE]

\* Variant: stopping fades the master gain out.
stopBGM_fadeOut(w) ==
    clearTimeout(
        [w EXCEPT !.isPlaying = FALSE,
                  !.masterGain = IF @.node THEN [node |-> TRUE, level |-> 0] ELSE @,
                  !.gainCalls = IF w.masterGain.node
                                THEN Append(@, [call |-> "setTargetAtTime", level |-> 0])
                                ELSE @],
        w.timerID)

\* Variant: the timer is cleared but the playing flag is left set.
stopBGM_keepPlaying(w) == clearTimeout(w, w.timerID)

stopBGM(w) == clearTimeout([w EXCEPT !.isPlaying = FALSE], w.timerID)

\* History only: a callback still pending when a session begins is an earlier
\* session's; over tells what state the call found the transport in.
beginSession(w, w0) ==
    [w EXCEPT !.timers = { [t EXCEPT !.stale = TRUE] : t \in w.timers },
              !.over = IF ~w0.session.began THEN "neverStarted"
                       ELSE IF ~w0.isPlaying THEN "stopped"
                       ELSE IF w0.session.steps = 0 THEN "playing"
                       ELSE "playingAdvanced",
              !.session = [began |-> TRUE, startedAt |-> now,
                           baseTime |-> now + Ms(100), baseStep |-> 0, steps |-> 0]]

\* Variant: a playing session is not stopped first.
startBGM_noStop(w0, i, u) ==
    LET w2 == init(w0)
    IN  IF w2.threw \/ ~w2.ctx THEN w2
        ELSE scheduler(
               [beginSession(w2, w0) EXCEPT !.intensity = i,
                                        !.isPlaying = TRUE,
                                        !.current16thNote = 0,
                                        !.tempo = IF i = "high" THEN 135 ELSE 100,
                                        !.nextNoteTime = now + Ms(100)], u)

\* Variant: the step counter is not reset.
startBGM_keepStep(w0, i, u) ==
    LET w1 == IF w0.isPlaying THEN stopBGM(w0) ELSE w0
        w2 == init(w1)
    IN  IF w2.threw \/ ~w2.ctx THEN w2
        ELSE scheduler(
               [beginSession(w2, w0) EXCEPT !.intensity = i,
                                        !.isPlaying = TRUE,
                                        !.tempo = IF i = "high" THEN 135 ELSE 100,
                                        !.nextNoteTime = now + Ms(100)], u)

\* Variant: only the high preset sets the tempo; low keeps the current one.
startBGM_defaultTempo(w0, i, u) ==
    LET w1 == IF w0.isPlaying THEN stopBGM(w0) ELSE w0
        w2 == init(w1)
    IN  IF w2.threw \/ ~w2.ctx THEN w2
        ELSE scheduler(
               [beginSession(w2, w0) EXCEPT !.intensity = i,
                                        !.isPlaying = TRUE,
                                        !.current16thNote = 0,
                                        !.tempo = IF i = "high" THEN 135 ELSE w2.tempo,
                                        !.nextNoteTime = now + Ms(100)], u)

startBGM(w0, i, u) ==
    LET w1 == IF w0.isPlaying THEN stopBGM(w0) ELSE w0
        w2 == init(w1)
    IN  IF w2.threw \/ ~w2.ctx THEN w2
        ELSE scheduler(
               [beginSession(w2, w0) EXCEPT !.intensity = i,
                                        !.isPlaying = TRUE,
                                        !.current16thNote = 0,
                                        !.tempo = IF i = "high" THEN 135 ELSE 100,
                                        !.nextNoteTime = now + Ms(100)], u)

---------------------------------------------------------------------------
(* The application: src/App.tsx and src/components/GameCanvas.tsx *)

Difficulties == {"NOVICE", "WARRIOR", "LEGEND"}

ZeroScore == [score |-> 0, combo |-> 0, maxCombo |-> 0, hits |-> 0, misses |-> 0]

\* Variant: a bomb takes its 500 points without the floor at zero.
updateScore_noFloor(prev, type) ==
    IF type = "hit"
    THEN LET c == prev.combo + 1
         IN  [prev EXCEPT !.score = prev.score + 100 + prev.combo * 10,
                          !.combo = c,
                          !.hits = prev.hits + 1,
                          !.maxCombo = IF c > prev.maxCombo THEN c ELSE prev.maxCombo]
    ELSE IF type = "bomb"
    THEN [prev EXCEPT !.score = prev.score - 500,
                      !.combo = 0,
                      !.misses = prev.misses + 1]
    ELSE [prev EXCEPT !.combo = 0, !.misses = prev.misses + 1]

updateScore(prev, type) ==
    IF type = "hit"
    THEN LET c == prev.combo + 1
         IN  [prev EXCEPT !.score = prev.score + 100 + prev.combo * 10,
                          !.combo = c,
                          !.hits = prev.hits + 1,
                          !.maxCombo = IF c > prev.maxCombo THEN c ELSE prev.maxCombo]
    ELSE IF type = "bomb"
    THEN [prev EXCEPT !.score = IF prev.score - 500 > 0 THEN prev.score - 500 ELSE 0,
                      !.combo = 0,
                      !.misses = prev.misses + 1]
    ELSE [prev EXCEPT !.combo = 0, !.misses = prev.misses + 1]

\* startGame up to its first await: the two calls on the audio service.  A
\* throw in init leaves the rest of startGame unexecuted.
startGame(w, d, u) ==
    LET a == init(w)
    IN  IF a.threw THEN a
        ELSE startBGM(a, IF d = "LEGEND" THEN "high" ELSE "low", u)

\* The App component as mounted: the menu, the zero score, no call pending.
AppMounted ==
    /\ gameState = "IDLE"
    /\ startGamePc = "none"
    /\ score = ZeroScore
    /\ scoreEvents = 0

---------------------------------------------------------------------------
(* The state machine *)

NoSession ==
    [began |-> FALSE, startedAt |-> 0, baseTime |-> 0, baseStep |-> 0,
     steps |-> 0]

Init ==
    /\ backend \in BOOLEAN
    /\ now = 0
    /\ timers = {}
    /\ ctx = FALSE
    /\ isMuted = FALSE
    /\ isPlaying = FALSE
    /\ tempo = 120
    /\ nextNoteTime = 0
    /\ current16thNote = 0
    /\ timerID = 0
    /\ intensity = "low"
    /\ masterGain = NoGain
    /\ reverbNode = NoReverb
    /\ engine = [recording |-> FALSE, voices |-> {}]
    /\ AppMounted
    /\ gainCalls = <<>>
    /\ voices = <<>>
    /\ dispatched = <<>>
    /\ lastOp = [op |-> "new", arg |-> "", threw |-> FALSE, over |-> ""]
    /\ session = NoSession

\* The handler's effect on the object, the timer queue and the engine.
CommitService(w, op, arg) ==
    /\ ctx' = w.ctx
    /\ isMuted' = w.isMuted
    /\ isPlaying' = w.isPlaying
    /\ tempo' = w.tempo
    /\ nextNoteTime' = w.nextNoteTime
    /\ current16thNote' = w.current16thNote
    /\ timerID' = w.timerID
    /\ intensity' = w.intensity
    /\ masterGain' = w.masterGain
    /\ reverbNode' = w.reverbNode
    /\ engine' = w.engine
    /\ timers' = w.timers
    /\ session' = w.session
    /\ gainCalls' = w.gainCalls
    /\ voices' = w.voices
    /\ dispatched' = w.dispatched
    /\ lastOp' = [op |-> op, arg |-> arg, threw |-> w.threw, over |-> w.over]
    /\ UNCHANGED <<backend, now>>

\* A call made on the service alone: the application's state is untouched.
Commit(w, op, arg) ==
    /\ CommitService(w, op, arg)
    /\ UNCHANGED appVars

CallInit == Commit(init(Self), "init", "")

CallStartBGM ==
    \E i \in Intensities : \E u \in Rand : Commit(startBGM(Self, i, u), "startBGM", i)

CallStopBGM == Commit(stopBGM(Self), "stopBGM", "")

\* The muted flag and the master bus as one observable value.
busState(w) ==
    IF ~w.masterGain.node THEN (IF w.isMuted THEN "muted/none" ELSE "unmuted/none")
    ELSE IF w.masterGain.level = 40
         THEN (IF w.isMuted THEN "muted/0.4" ELSE "unmuted/0.4")
         ELSE (IF w.isMuted THEN "muted/0" ELSE "unmuted/0")

\* lastOp.over records the flag and bus level the call found.
CallToggleMute ==
    Commit([toggleMute(Self) EXCEPT !.over = busState(Self)], "toggleMute", "")

CallPlaySliceSfx == Commit(playSliceSfx(Self), "playSliceSfx", "")

CallPlayBombSfx == Commit(playBombSfx(Self), "playBombSfx", "")

\* The browser runs a due callback: () => this.scheduler()
TimerFires ==
    \E t \in timers : \E u \in Rand :
        /\ t.due <= now
        /\ Commit(scheduler([Self EXCEPT !.timers = timers \ {t}], u),
                  IF t.stale THEN "staleTick" ELSE "tick", "")

\* The audio clock runs once the context exists.  It is the one clock of the
\* model: a timer's due time is read on it, so a callback runs when at least
\* lookahead has passed on the audio clock, and any time after that.
ClockAdvance ==
    /\ ctx
    /\ now + lookahead <= (IF engine.recording THEN MaxEngineNow ELSE MaxNow) * lookahead
    /\ now' = now + lookahead
    /\ gainCalls' = <<>>
    /\ voices' = <<>>
    /\ dispatched' = <<>>
    /\ lastOp' = [op |-> "clock", arg |-> "", threw |-> FALSE, over |-> ""]
    /\ UNCHANGED <<backend, timers, ctx, isMuted, isPlaying, tempo, nextNoteTime,
                   current16thNote, timerID, intensity, masterGain, reverbNode,
                   engine, session>>
    /\ UNCHANGED appVars

Next ==
    \/ CallInit
    \/ CallStartBGM
    \/ CallStopBGM
    \/ CallToggleMute
    \/ CallPlaySliceSfx
    \/ CallPlayBombSfx
    \/ TimerFires
    \/ ClockAdvance

Spec == Init /\ [][Next]_vars

---------------------------------------------------------------------------
(* The loop body of scheduler, scheduleNote(current16thNote, nextNoteTime)  *)
(* followed by nextNote(), as a function of the fields it reads: applied    *)
(* repeatedly from every step, tempo, intensity and mute setting.           *)

CycleStartTimes == {0, Ms(100), Ms(100) + 1}

InitCycle ==
    /\ backend = TRUE
    /\ now = 0
    /\ timers = {}
    /\ ctx = TRUE
    /\ isMuted \in BOOLEAN
    /\ isPlaying = TRUE
    /\ tempo \in {100, 120, 135}
    /\ nextNoteTime \in CycleStartTimes
    /\ current16thNote \in 0 .. 15
    /\ timerID = 0
    /\ intensity \in Intensities
    /\ masterGain = [node |-> TRUE, level |-> IF isMuted THEN 0 ELSE 40]
    /\ reverbNode = [node |-> TRUE, impulses |-> 1]
    /\ engine = [recording |-> FALSE, voices |-> {}]
    /\ AppMounted
    /\ gainCalls = <<>>
    /\ voices = <<>>
    /\ dispatched = <<>>
    /\ lastOp = [op |-> "new", arg |-> "", threw |-> FALSE, over |-> ""]
    /\ session = [began |-> TRUE, startedAt |-> 0, baseTime |-> nextNoteTime,
                  baseStep |-> current16thNote, steps |-> 0]

LoopBody ==
    /\ session.steps < MaxCycleSteps
    /\ \E u \in Rand :
         Commit(nextNote(scheduleNote(Self, current16thNote, nextNoteTime, u)),
                "loopBody", "")

NextCycle == LoopBody

SpecCycle == InitCycle /\ [][NextCycle]_vars

---------------------------------------------------------------------------
(* The same machine with the engine's voice log kept, over a shorter horizon *)

InitEngine ==
    /\ backend = TRUE
    /\ now = 0
    /\ timers = {}
    /\ ctx = FALSE
    /\ isMuted = FALSE
    /\ isPlaying = FALSE
    /\ tempo = 120
    /\ nextNoteTime = 0
    /\ current16thNote = 0
    /\ timerID = 0
    /\ intensity = "low"
    /\ masterGain = NoGain
    /\ reverbNode = NoReverb
    /\ engine = [recording |-> TRUE, voices |-> {}]
    /\ AppMounted
    /\ gainCalls = <<>>
    /\ voices = <<>>
    /\ dispatched = <<>>
    /\ lastOp = [op |-> "new", arg |-> "", threw |-> FALSE, over |-> ""]
    /\ session = NoSession

\* The log is bounded: once it holds MaxEngineVoices voices no further tick
\* is taken.
EngineTick ==
    /\ Cardinality(engine.voices) < MaxEngineVoices
    /\ TimerFires

NextEngine ==
    \/ CallStartBGM
    \/ CallStopBGM
    \/ CallToggleMute
    \/ EngineTick
    \/ ClockAdvance

SpecEngine == InitEngine /\ [][NextEngine]_vars

---------------------------------------------------------------------------
(* One session from its startBGM on, with nothing but the clock and the
   callbacks, over a horizon long enough for the pattern to wrap *)

\* The state startBGM(i) leaves when called at time 0 on an object whose
\* context exists.
InitSession ==
    /\ backend = TRUE
    /\ now = 0
    /\ ctx = TRUE
    /\ isMuted \in BOOLEAN
    /\ isPlaying = TRUE
    /\ intensity \in Intensities
    /\ tempo = IF intensity = "high" THEN 135 ELSE 100
    /\ nextNoteTime = now + Ms(100)
    /\ current16thNote = 0
    /\ timerID = 1
    /\ timers = {[id |-> 1, due |-> now + lookahead, stale |-> FALSE]}
    /\ masterGain = [node |-> TRUE, level |-> IF isMuted THEN 0 ELSE 40]
    /\ reverbNode = [node |-> TRUE, impulses |-> 1]
    /\ engine = [recording |-> FALSE, voices |-> {}]
    /\ AppMounted
    /\ gainCalls = <<>>
    /\ voices = <<>>
    /\ dispatched = <<>>
    /\ lastOp = [op |-> "startBGM", arg |-> intensity, threw |-> FALSE, over |-> "neverStarted"]
    /\ session = [began |-> TRUE, startedAt |-> 0, baseTime |-> Ms(100),
                  baseStep |-> 0, steps |-> 0]

SessionClock ==
    /\ now + lookahead <= MaxSessionNow * lookahead
    /\ now' = now + lookahead
    /\ gainCalls' = <<>>
    /\ voices' = <<>>
    /\ dispatched' = <<>>
    /\ lastOp' = [op |-> "clock", arg |-> "", threw |-> FALSE, over |-> ""]
    /\ UNCHANGED <<backend, timers, ctx, isMuted, isPlaying, tempo, nextNoteTime,
                   current16thNote, timerID, intensity, masterGain, reverbNode,
                   engine, session>>
    /\ UNCHANGED appVars

NextSession ==
    \/ TimerFires
    \/ SessionClock

SpecSession == InitSession /\ [][NextSession]_vars

---------------------------------------------------------------------------
(* A session that is never stopped, without a time horizon.  The scheduler
   only compares nextNoteTime with ctx.currentTime and adds to it, so times
   are kept relative to the current audio time: now stays 0 and a clock
   advance moves nextNoteTime and the callbacks' due times back instead. *)

\* The state startBGM(i) leaves on an object whose context exists.
InitLive ==
    /\ backend = TRUE
    /\ now = 0
    /\ ctx = TRUE
    /\ isMuted \in BOOLEAN
    /\ isPlaying = TRUE
    /\ intensity \in Intensities
    /\ tempo = IF intensity = "high" THEN 135 ELSE 100
    /\ nextNoteTime = now + Ms(100)
    /\ current16thNote = 0
    /\ timerID = 1
    /\ timers = {[id |-> 1, due |-> now + lookahead, stale |-> FALSE]}
    /\ masterGain = [node |-> TRUE, level |-> IF isMuted THEN 0 ELSE 40]
    /\ reverbNode = [node |-> TRUE, impulses |-> 1]
    /\ engine = [recording |-> FALSE, voices |-> {}]
    /\ AppMounted
    /\ gainCalls = <<>>
    /\ voices = <<>>
    /\ dispatched = <<>>
    /\ lastOp = [op |-> "startBGM", arg |-> intensity, threw |-> FALSE, over |-> "neverStarted"]
    /\ session = [began |-> TRUE, startedAt |-> 0, baseTime |-> Ms(100),
                  baseStep |-> 0, steps |-> 0]

\* A due callback runs; the session history is not kept here.
LiveTick ==
    \E t \in timers : \E u \in Rand :
        /\ t.due <= now
        /\ Commit([scheduler([Self EXCEPT !.timers = timers \ {t}], u)
                      EXCEPT !.session = session], "tick", "")

\* The audio clock advances by one quantum, unless a callback is already
\* MaxLag quanta overdue.
LiveClock ==
    /\ \A t \in timers : t.due + MaxLag * lookahead > now
    /\ nextNoteTime' = nextNoteTime - lookahead
    /\ timers' = { [t EXCEPT !.due = @ - lookahead] : t \in timers }
    /\ gainCalls' = <<>>
    /\ voices' = <<>>
    /\ dispatched' = <<>>
    /\ lastOp' = [op |-> "clock", arg |-> "", threw |-> FALSE, over |-> ""]
    /\ UNCHANGED <<backend, now, ctx, isMuted, isPlaying, tempo, current16thNote,
                   timerID, intensity, masterGain, reverbNode, engine, session>>
    /\ UNCHANGED appVars

NextLive ==
    \/ LiveTick
    \/ LiveClock
    \/ CallToggleMute

TimerDue == \E t \in timers : t.due <= now

\* The audio clock of a running context keeps advancing (WF on LiveClock), and
\* the browser runs a due callback eventually.  LiveTick is enabled exactly
\* when a callback is due and leaves none due (the one it arms is due
\* lookahead later), so weak fairness of LiveTick is []<>~TimerDue.
SpecLive ==
    InitLive /\ [][NextLive]_vars /\ WF_vars(LiveClock) /\ []<>~TimerDue

---------------------------------------------------------------------------
(* The application around the service: the game lifecycle of App and the    *)
(* score events of GameCanvas.                                              *)

MaxAppNow == 6
MaxScoreEvents == 4

InitApp ==
    /\ backend \in BOOLEAN
    /\ now = 0
    /\ timers = {}
    /\ ctx = FALSE
    /\ isMuted = FALSE
    /\ isPlaying = FALSE
    /\ tempo = 120
    /\ nextNoteTime = 0
    /\ current16thNote = 0
    /\ timerID = 0
    /\ intensity = "low"
    /\ masterGain = NoGain
    /\ reverbNode = NoReverb
    /\ engine = [recording |-> FALSE, voices |-> {}]
    /\ AppMounted
    /\ gainCalls = <<>>
    /\ voices = <<>>
    /\ dispatched = <<>>
    /\ lastOp = [op |-> "new", arg |-> "", threw |-> FALSE, over |-> ""]
    /\ session = NoSession

\* START MISSION, rendered in the menu (IDLE): startGame runs to its first
\* await.  Where init throws, setGameState(CONNECTING) is never reached.
StartGame ==
    /\ gameState = "IDLE"
    /\ startGamePc = "none"
    /\ \E d \in Difficulties : \E u \in Rand :
         LET r == startGame(Self, d, u)
         IN  /\ CommitService(r, "startGame", d)
             /\ gameState' = IF r.threw THEN gameState ELSE "CONNECTING"
             /\ startGamePc' = IF r.threw THEN "none" ELSE "startVideo"
    /\ UNCHANGED <<score, scoreEvents>>

\* await startVideo() settles: the camera is granted or refused.
StartVideoSettles ==
    /\ startGamePc = "startVideo"
    /\ \E videoStarted \in BOOLEAN :
         /\ gameState' = IF videoStarted THEN gameState ELSE "IDLE"
         /\ startGamePc' = IF videoStarted THEN "connect" ELSE "none"
         /\ CommitService(Self, "startVideo", IF videoStarted THEN "granted" ELSE "refused")
    /\ UNCHANGED <<score, scoreEvents>>

\* await service.connect() settles: resolved, or rejected into the catch.
ConnectSettles ==
    /\ startGamePc = "connect"
    /\ \E connected \in BOOLEAN :
         /\ gameState' = IF connected THEN "PLAYING" ELSE "IDLE"
         /\ CommitService(Self, "connect", IF connected THEN "resolved" ELSE "rejected")
    /\ startGamePc' = "none"
    /\ UNCHANGED <<score, scoreEvents>>

\* The stop button, rendered while PLAYING.
StopGame ==
    /\ gameState = "PLAYING"
    /\ CommitService(stopBGM(Self), "stopGame", "")
    /\ gameState' = "GAME_OVER"
    /\ UNCHANGED <<startGamePc, score, scoreEvents>>

\* The retry button, rendered on the game-over screen.
ResetGame ==
    /\ gameState = "GAME_OVER"
    /\ CommitService(Self, "resetGame", "")
    /\ score' = ZeroScore
    /\ scoreEvents' = 0
    /\ gameState' = "IDLE"
    /\ UNCHANGED startGamePc

\* checkHit finds a target in the strike window: a bomb or a fruit.
CheckHit ==
    /\ gameState = "PLAYING"
    /\ scoreEvents < MaxScoreEvents
    /\ \E type \in {"bomb", "fruit"} :
         /\ CommitService(IF type = "bomb" THEN playBombSfx(Self) ELSE playSliceSfx(Self),
                          "checkHit", type)
         /\ score' = updateScore(score, IF type = "bomb" THEN "bomb" ELSE "hit")
    /\ scoreEvents' = scoreEvents + 1
    /\ UNCHANGED <<gameState, startGamePc>>

\* update finds a fruit fallen past the screen: updateScore('miss').
TargetMissed ==
    /\ gameState = "PLAYING"
    /\ scoreEvents < MaxScoreEvents
    /\ CommitService(Self, "miss", "fruit")
    /\ score' = updateScore(score, "miss")
    /\ scoreEvents' = scoreEvents + 1
    /\ UNCHANGED <<gameState, startGamePc>>

\* The audio clock, over the horizon of this specification.
AppClock ==
    /\ now + lookahead <= MaxAppNow * lookahead
    /\ ClockAdvance

NextApp ==
    \/ StartGame
    \/ StartVideoSettles
    \/ ConnectSettles
    \/ StopGame
    \/ ResetGame
    \/ CheckHit
    \/ TargetMissed
    \/ TimerFires
    \/ AppClock

SpecApp == InitApp /\ [][NextApp]_vars

---------------------------------------------------------------------------
(* Properties *)

BgmVoiceAt(vs, i) == vs[i].inst \in BgmInstruments

\* C1: at most one scheduling loop is active: never more than one pending
\* tick timer, and no callback armed by an earlier session is pending or runs
\* once a later startBGM has begun a session.
C1_OneSchedulingLoop ==
    /\ Cardinality(timers) <= 1
    /\ \A t \in timers : ~t.stale
    /\ lastOp.op # "staleTick"

C1_Witness ==
    /\ lastOp.op = "startBGM"
    /\ lastOp.over = "playingAdvanced"
    /\ Cardinality(timers) = 1

\* C2: whatever state startBGM(intensity) is called in, on return the
\* transport is playing at step 0 with the argument's intensity and tempo,
\* nextNoteTime is the audio time plus 0.1 s, nothing was dispatched, and the
\* only pending tick is the new session's.
C2_StartResetsTransport ==
    (lastOp.op = "startBGM" /\ ~lastOp.threw) =>
        /\ isPlaying
        /\ current16thNote = 0
        /\ intensity = lastOp.arg
        /\ tempo = (IF lastOp.arg = "high" THEN 135 ELSE 100)
        /\ nextNoteTime = now + Ms(100)
        /\ dispatched = <<>>
        /\ voices = <<>>
        /\ timers = {[id |-> timerID, due |-> now + lookahead, stale |-> FALSE]}

C2_Witness ==
    /\ lastOp.op = "startBGM"
    /\ lastOp.over = "playingAdvanced"
    /\ ~lastOp.threw
    /\ now > 0
    /\ current16thNote = 0

\* C3: while the transport is stopped, every step other than a startBGM
\* leaves nextNoteTime and current16thNote unchanged, dispatches no step,
\* hands no BGM voice to the engine and leaves no tick timer pending.
C3_StoppedIssuesNoTick ==
    [][ (~isPlaying /\ lastOp'.op # "startBGM") =>
          /\ nextNoteTime' = nextNoteTime
          /\ current16thNote' = current16thNote
          /\ timers' = {}
          /\ dispatched' = <<>>
          /\ \A i \in DOMAIN voices' : ~BgmVoiceAt(voices', i) ]_vars

C3_Witness ==
    /\ lastOp.op = "clock"
    /\ ~isPlaying
    /\ session.began
    /\ session.steps > 0
    /\ now >= nextNoteTime

\* C4 (as claimed): every voice a tick hands to the engine starts at or after
\* the audio time of that tick, however late the tick runs.
C4_NeverInThePast ==
    lastOp.op \in {"tick", "startBGM"} =>
        \A i \in DOMAIN voices : voices[i].start >= now

\* C4 (amended): every voice handed to the engine by a tick that runs no
\* later than scheduleAheadTime (0.1 s) after the previous scheduler run of
\* the session starts at or after the audio time of that tick.
C4_NotInThePastWhenTimely ==
    [][ ( /\ lastOp'.op = "tick"
          /\ \A t \in timers : now' <= (t.due - lookahead) + scheduleAheadTime ) =>
          \A i \in DOMAIN voices' : voices'[i].start >= now' ]_vars

C4_Witness ==
    /\ lastOp.op = "tick"
    /\ session.steps >= 2
    /\ voices # <<>>
    /\ \A i \in DOMAIN voices : voices[i].start >= now

\* C5: every step a tick dispatches, and every voice it hands over, has a
\* start time strictly below the tick's audio time plus scheduleAheadTime and
\* at or above the value nextNoteTime had when the tick began.
C5_TriggersInsideWindow ==
    [][ lastOp'.op = "tick" =>
          /\ \A i \in DOMAIN dispatched' :
                /\ dispatched'[i].time < now' + scheduleAheadTime
                /\ dispatched'[i].time >= nextNoteTime
          /\ \A i \in DOMAIN voices' :
                /\ voices'[i].start < now' + scheduleAheadTime
                /\ voices'[i].start >= nextNoteTime ]_vars

C5_Witness ==
    /\ lastOp.op = "tick"
    /\ Len(dispatched) >= 2
    /\ voices # <<>>

\* C6 (as claimed): every tick leaves nextNoteTime strictly greater than it
\* found it.
C6_StrictlyIncreasing ==
    [][ lastOp'.op = "tick" => nextNoteTime' > nextNoteTime ]_vars

\* C6 (amended): no tick decreases nextNoteTime, and a tick increases it
\* exactly when it dispatches at least one step.
C6_IncreasesExactlyOnDispatch ==
    [][ lastOp'.op = "tick" =>
          /\ nextNoteTime' >= nextNoteTime
          /\ (nextNoteTime' > nextNoteTime) <=> (dispatched' # <<>>) ]_vars

C6_Witness ==
    /\ lastOp.op = "tick"
    /\ isPlaying
    /\ session.steps >= 1
    /\ dispatched = <<>>

\* C7: within a session no step of the system (tick, toggleMute, sound
\* effect, init, clock advance) decreases nextNoteTime.
C7_NonDecreasingInSession ==
    [][ (isPlaying /\ isPlaying' /\ lastOp'.op # "startBGM") =>
          nextNoteTime' >= nextNoteTime ]_vars

C7_Witness ==
    /\ lastOp.op = "playSliceSfx"
    /\ voices # <<>>
    /\ isPlaying
    /\ session.steps >= 2

\* C8: at every point of a session nextNoteTime is the audio time at startBGM
\* plus 0.1 s plus (steps advanced) * (60 / tempo) * 0.25.
C8_DriftFree ==
    session.began =>
        4 * tempo * (nextNoteTime - (session.startedAt + Ms(100)))
            = session.steps * 60 * TicksPerSecond

C8_Witness ==
    /\ lastOp.op = "tick"
    /\ session.startedAt > 0
    /\ session.steps >= 3
    /\ Len(dispatched) >= 2
    /\ dispatched[1].time < now

\* C9: at tempo 120 one step advances nextNoteTime by 0.125 s; sixteen steps
\* from any step advance it by 16 * (60 / tempo) * 0.25 (2 s at tempo 120) and
\* bring current16thNote back to the step it started from.
C9_SixteenStepsReturn ==
    /\ (session.steps = 1 /\ tempo = 120) =>
          8 * (nextNoteTime - session.baseTime) = TicksPerSecond
    /\ session.steps = 16 =>
          /\ current16thNote = session.baseStep
          /\ 4 * tempo * (nextNoteTime - session.baseTime) = 16 * 60 * TicksPerSecond
          /\ tempo = 120 => nextNoteTime - session.baseTime = 2 * TicksPerSecond

C9_Witness ==
    /\ lastOp.op = "loopBody"
    /\ session.steps = 16
    /\ tempo = 120
    /\ session.baseStep = 9
    /\ current16thNote = 9

KickIndices == { i \in DOMAIN voices : voices[i].inst = "kick" }

\* C10: an unmuted step yields exactly one kick, at the step's time, when the
\* intensity is high and the step is 0, 4, 8 or 12, or the intensity is low
\* and the step is 0 or 10; every other step yields no kick.
C10_KickPattern ==
    (lastOp.op = "loopBody" /\ ~isMuted) =>
        LET b == dispatched[1].beat IN
        /\ Cardinality(KickIndices) =
              IF \/ intensity = "high" /\ b \in {0, 4, 8, 12}
                 \/ intensity = "low" /\ b \in {0, 10}
              THEN 1 ELSE 0
        /\ \A i \in KickIndices : voices[i].start = dispatched[1].time

C10_Witness ==
    /\ lastOp.op = "loopBody"
    /\ intensity = "low"
    /\ dispatched[1].beat = 10
    /\ KickIndices # {}
    /\ session.steps >= 12

SnareIndices == { i \in DOMAIN voices : voices[i].inst = "snare" }

\* C11: an unmuted step yields exactly one snare, at the step's time, when
\* the step is 4 or 12, and no snare at any other step, in both intensities.
C11_SnarePattern ==
    (lastOp.op = "loopBody" /\ ~isMuted) =>
        LET b == dispatched[1].beat IN
        /\ Cardinality(SnareIndices) = IF b \in {4, 12} THEN 1 ELSE 0
        /\ (b \in {4, 12}) <=> (b % 8 = 4)
        /\ \A i \in SnareIndices : voices[i].start = dispatched[1].time

C11_Witness ==
    /\ lastOp.op = "loopBody"
    /\ intensity = "low"
    /\ dispatched[1].beat = 12
    /\ SnareIndices # {}

\* C12: two consecutive toggleMute calls are a round trip: the muted flag and
\* the master gain's target level are what they were before the first call.
C12_ToggleTwiceRoundTrip ==
    [][(lastOp.op = "toggleMute" /\ lastOp'.op = "toggleMute")
        => busState(Self)' = lastOp.over]_vars

Ramped(calls) == \A i \in DOMAIN calls : calls[i].call = "setTargetAtTime"

\* C13 (as stated): the master gain level is never set by an instantaneous
\* assignment; every write to it is a smoothed target approach.
C13_NeverInstantaneous == Ramped(gainCalls)

\* C13 (amended): once the master gain exists, every operation that writes or
\* changes its level does so through a smoothed target approach; the only
\* direct assignment is the initial level given to the node init creates.
C13_RampedAfterCreation ==
    [][ /\ masterGain.node => Ramped(gainCalls')
        /\ (masterGain.node /\ masterGain' # masterGain) => gainCalls' # <<>>
        /\ ~Ramped(gainCalls') =>
              /\ ~masterGain.node /\ masterGain'.node
              /\ gainCalls' = <<[call |-> "value", level |-> 40]>> ]_vars

C13_Witness ==
    /\ lastOp.op = "toggleMute"
    /\ isPlaying
    /\ masterGain = [node |-> TRUE, level |-> 0]
    /\ gainCalls = <<[call |-> "setTargetAtTime", level |-> 0]>>

SfxOps == {"playSliceSfx", "playBombSfx"}

\* C14: while muted, playSliceSfx and playBombSfx hand no voice to the engine
\* and change no state (flags, transport, bus, timers), playing or stopped.
C14_MutedSfxIsNoOp ==
    [][(lastOp'.op \in SfxOps /\ isMuted) =>
          /\ voices' = <<>>
          /\ gainCalls' = <<>>
          /\ ~lastOp'.threw
          /\ UNCHANGED <<now, timers, ctx, isMuted, isPlaying, tempo, nextNoteTime,
                         current16thNote, timerID, intensity, masterGain, session>>]_vars

C14_Witness ==
    /\ lastOp.op = "playBombSfx"
    /\ ctx /\ isMuted /\ isPlaying
    /\ timers # {}
    /\ voices = <<>>

\* C15: with the context created and not muted, each effect call hands the
\* engine exactly one voice, starting at the current audio time, whether the
\* music is playing or stopped, and leaves the transport and the pending tick
\* as they were.
C15_SfxIndependentOfTransport ==
    [][(lastOp'.op \in SfxOps /\ ctx /\ ~isMuted) =>
          /\ Len(voices') = 1
          /\ voices'[1].start = now
          /\ voices'[1].inst = (IF lastOp'.op = "playSliceSfx" THEN "slice" ELSE "bomb")
          /\ UNCHANGED <<isPlaying, current16thNote, nextNoteTime, tempo, intensity,
                         timerID, timers>>]_vars

C15_Witness ==
    /\ lastOp.op = "playBombSfx"
    /\ ~isPlaying /\ session.began
    /\ now > 0
    /\ voices = <<voice("bomb", now, 0, Ms(400))>>

\* C16: the context, master gain, reverb node and reverb impulse are created
\* by the first init only: an init on an object that has its context (called
\* directly or from startBGM) creates nothing, builds no impulse and leaves
\* the master gain and the muted flag as they are.
C16_InitIdempotent ==
    [][ /\ (ctx /\ lastOp'.op \in {"init", "startBGM"}) =>
              /\ ctx' /\ ~lastOp'.threw
              /\ gainCalls' = <<>>
              /\ UNCHANGED <<masterGain, reverbNode, isMuted>>
        /\ (~ctx /\ ctx') =>
              /\ lastOp'.op \in {"init", "startBGM"}
              /\ masterGain' = [node |-> TRUE, level |-> 40]
              /\ reverbNode' = [node |-> TRUE, impulses |-> 1]
        /\ ctx' => ctx' = masterGain'.node /\ reverbNode'.impulses = 1 ]_vars

C16_Witness ==
    /\ lastOp.op = "init"
    /\ ctx /\ isMuted /\ isPlaying
    /\ masterGain = [node |-> TRUE, level |-> 0]
    /\ reverbNode = [node |-> TRUE, impulses |-> 1]
    /\ gainCalls = <<>>

\* C17: where no audio context can be created, every public operation is a
\* no-op: it raises no error and hands no voice to the engine.
C17_UnavailableBackendIsNoOp ==
    ~backend => (~lastOp.threw /\ voices = <<>>)

presetTempo(i) == IF i = "high" THEN 135 ELSE 100

\* C18: a session started by startBGM(i) runs at 100 BPM for low and 135 BPM
\* for high throughout; no tick, toggleMute, effect call, init or stopBGM
\* changes tempo or intensity, only startBGM does.
C18_TempoFixedPerSession ==
    [][ /\ lastOp'.op # "startBGM" => UNCHANGED <<tempo, intensity>>
        /\ (lastOp'.op = "startBGM" /\ ~lastOp'.threw) =>
              /\ intensity' = lastOp'.arg
              /\ tempo' = presetTempo(lastOp'.arg)
        /\ session'.began => tempo' = presetTempo(intensity') ]_vars

C18_Witness ==
    /\ lastOp.op = "tick"
    /\ isMuted
    /\ intensity = "high" /\ tempo = 135
    /\ Len(dispatched) >= 1

\* C20: when a tick completes while playing, nextNoteTime is at least the
\* current audio time plus scheduleAheadTime, however late the tick ran, and
\* the tick has dispatched every step of the grid that fell inside the window
\* in the meantime, in order, one sixteenth apart.
C20_StaysAheadAndCatchesUp ==
    [][(lastOp'.op = "tick" /\ isPlaying) =>
          LET n == Len(dispatched')
              s == sixteenth(tempo)
          IN  /\ nextNoteTime' >= now' + scheduleAheadTime
              /\ nextNoteTime' = nextNoteTime + n * s
              /\ n > 0 => nextNoteTime' - s < now' + scheduleAheadTime
              /\ \A j \in 1 .. n :
                    /\ dispatched'[j].time = nextNoteTime + (j - 1) * s
                    /\ dispatched'[j].beat = (current16thNote + j - 1) % 16 ]_vars

C20_Witness ==
    /\ lastOp.op = "tick"
    /\ isPlaying
    /\ Len(dispatched) >= 3
    /\ dispatched[1].time < now
    /\ nextNoteTime >= now + scheduleAheadTime

Range(f) == { f[i] : i \in DOMAIN f }

\* C19: the voices handed to the engine are append-only: every step keeps
\* each voice already scheduled, with its parameters, including those that
\* start in the future; a step adds exactly the voices its handler started,
\* and stopBGM and toggleMute add none.
C19_VoicesAppendOnly ==
    [][ /\ engine.voices \subseteq engine'.voices
        /\ engine'.voices = engine.voices \cup Range(voices')
        /\ lastOp'.op \in {"stopBGM", "toggleMute", "clock"} => engine' = engine ]_vars

C19_Witness ==
    /\ lastOp.op = "stopBGM"
    /\ \E v \in engine.voices : v.inst \in BgmInstruments /\ v.start > now
    /\ \E v \in engine.voices : v.inst \in BgmInstruments /\ v.start <= now

\* C21: within one scheduler run the steps are dispatched in increasing time
\* order, two consecutive steps exactly one sixteenth note (0.25 * 60 / tempo)
\* apart; the voices reach the engine in non-decreasing start order, and
\* every voice starts at the time of the step it belongs to.
C21_OrderedWithinTick ==
    lastOp.op \in {"tick", "startBGM"} =>
        /\ \A j \in 1 .. (Len(dispatched) - 1) :
              /\ dispatched[j + 1].time > dispatched[j].time
              /\ 4 * tempo * (dispatched[j + 1].time - dispatched[j].time)
                    = 60 * TicksPerSecond
        /\ \A i \in 1 .. (Len(voices) - 1) : voices[i].start <= voices[i + 1].start
        /\ \A i \in DOMAIN voices :
              \E j \in DOMAIN dispatched : voices[i].start = dispatched[j].time
        /\ (~isMuted /\ intensity = "high") =>
              \A j \in DOMAIN dispatched :
                 \E i \in DOMAIN voices : voices[i].start = dispatched[j].time

C21_Witness ==
    /\ lastOp.op = "tick"
    /\ intensity = "high"
    /\ Len(dispatched) >= 3
    /\ \E i, k \in DOMAIN voices : voices[i].start < voices[k].start
    /\ \E i, k \in DOMAIN voices : i # k /\ voices[i].start = voices[k].start

VoicesOf(inst) == { voices[i] : i \in { k \in DOMAIN voices : voices[k].inst = inst } }

CountOf(inst) == Cardinality({ k \in DOMAIN voices : voices[k].inst = inst })

\* C22: an unmuted even step plays one hi-hat of 0.05 s in both intensities;
\* an unmuted odd step plays one hi-hat of 0.03 s in high intensity and no
\* hi-hat in low intensity.
C22_HiHatPattern ==
    (lastOp.op = "loopBody" /\ ~isMuted) =>
        LET b == dispatched[1].beat
            t == dispatched[1].time
        IN  /\ b \in 0 .. 15
            /\ b % 2 = 0 =>
                  /\ CountOf("hihat") = 1
                  /\ VoicesOf("hihat") = {voice("hihat", t, 0, Ms(50))}
            /\ (b % 2 = 1 /\ intensity = "high") =>
                  /\ CountOf("hihat") = 1
                  /\ VoicesOf("hihat") = {voice("hihat", t, 0, Ms(30))}
            /\ (b % 2 = 1 /\ intensity = "low") => CountOf("hihat") = 0

C22_Witness ==
    /\ lastOp.op = "loopBody"
    /\ intensity = "high"
    /\ dispatched[1].beat = 7
    /\ \E v \in VoicesOf("hihat") : v.dur = Ms(30)

\* C23: in high intensity an unmuted step plays one bass note iff the step is
\* even, at scale[0]/2 below step 8 and scale[1]/2 from step 8 on, 0.2 s
\* long; in low intensity only step 0 plays a bass note, at scale[0]/2, 2 s
\* long.
C23_BassPattern ==
    (lastOp.op = "loopBody" /\ ~isMuted) =>
        LET b == dispatched[1].beat
            t == dispatched[1].time
        IN  /\ intensity = "high" =>
                  /\ CountOf("bass") = IF b % 2 = 0 THEN 1 ELSE 0
                  /\ (b % 2 = 0 /\ b < 8) =>
                        VoicesOf("bass") = {voice("bass", t, scale[1] \div 2, Ms(200))}
                  /\ (b % 2 = 0 /\ b >= 8) =>
                        VoicesOf("bass") = {voice("bass", t, scale[2] \div 2, Ms(200))}
            /\ intensity = "low" =>
                  /\ CountOf("bass") = IF b = 0 THEN 1 ELSE 0
                  /\ b = 0 =>
                        VoicesOf("bass") = {voice("bass", t, scale[1] \div 2, 2 * TicksPerSecond)}

C23_Witness ==
    /\ lastOp.op = "loopBody"
    /\ intensity = "high"
    /\ dispatched[1].beat = 8
    /\ \E v \in VoicesOf("bass") : v.freq = scale[2] \div 2

\* The melody of an unmuted step: in high intensity one note of 0.1 s exactly
\* at steps 0, 3, 6, 9, 12, 14, its pitch among the first n notes of the
\* scale; in low intensity one note of 0.5 s exactly at steps 0, 6, 12, its
\* pitch a note of the scale doubled.
MelodyPattern(n) ==
    (lastOp.op = "loopBody" /\ ~isMuted) =>
        LET b == dispatched[1].beat
            t == dispatched[1].time
        IN  /\ intensity = "high" =>
                  /\ CountOf("synth") = IF b \in {0, 3, 6, 9, 12, 14} THEN 1 ELSE 0
                  /\ \A v \in VoicesOf("synth") :
                        /\ v.start = t /\ v.dur = Ms(100)
                        /\ \E k \in 1 .. n : v.freq = scale[k]
            /\ intensity = "low" =>
                  /\ CountOf("synth") = IF b \in {0, 6, 12} THEN 1 ELSE 0
                  /\ \A v \in VoicesOf("synth") :
                        /\ v.start = t /\ v.dur = Ms(500)
                        /\ \E k \in DOMAIN scale : v.freq = 2 * scale[k]

\* C24 (as stated): the high-intensity pitch is one of the first 3 notes of
\* the 6-note scale (its lower half).
C24_MelodyLowerHalf == MelodyPattern(3)

\* C24 (amended): the high-intensity pitch is one of the first 4 notes of the
\* scale; steps, durations and the low-intensity pattern as stated.
C24_MelodyFirstFour == MelodyPattern(4)

C24_Witness ==
    /\ lastOp.op = "loopBody"
    /\ ~isMuted
    /\ intensity = "high"
    /\ dispatched[1].beat = 14
    /\ \E v \in VoicesOf("synth") : v.freq = scale[4]

\* C25: current16thNote is always an integer in 0..15, and each step advance
\* takes it to (current16thNote + 1) mod 16.
C25_StepCyclesMod16 ==
    [][ /\ current16thNote \in 0 .. 15
        /\ current16thNote' \in 0 .. 15
        /\ session'.steps = session.steps + 1 =>
              current16thNote' = (current16thNote + 1) % 16 ]_vars

C25_Witness ==
    /\ lastOp.op = "loopBody"
    /\ dispatched[1].beat = 15
    /\ current16thNote = 0
    /\ session.steps >= 2

\* C26: only toggleMute and the creating init write the mix bus: stopBGM,
\* ticks, the sound effects, the passing of time, and startBGM on an object
\* that has its context leave the muted flag, the master gain and its target,
\* and the reverb node and impulse as they are.
C26_BusWrittenOnlyByMuteAndInit ==
    [][ ( \/ lastOp'.op \in {"stopBGM", "tick", "staleTick", "clock"}
          \/ lastOp'.op \in SfxOps
          \/ lastOp'.op = "startBGM" /\ ctx ) =>
            /\ UNCHANGED <<isMuted, masterGain, reverbNode>>
            /\ gainCalls' = <<>> ]_vars

C26_Witness ==
    /\ lastOp.op = "startBGM"
    /\ lastOp.over = "playingAdvanced"
    /\ isMuted
    /\ masterGain = [node |-> TRUE, level |-> 0]

DispatchedStep(b) ==
    lastOp.op = "tick" /\ \E j \in DOMAIN dispatched : dispatched[j].beat = b

\* C27: in a session that is never stopped, with callbacks that keep firing
\* and a clock that keeps advancing, the loop never stalls: the session stays
\* playing with a callback armed, and every step 0..15 is dispatched again
\* and again.  Each dispatch adds one sixteenth note to nextNoteTime (C8,
\* C20), so nextNoteTime grows without bound.
C27_ProgressWithoutGaps ==
    /\ [](isPlaying /\ Cardinality(timers) = 1)
    /\ [][lastOp'.op = "tick" => ~TimerDue']_vars
    /\ \A b \in 0 .. 15 : []<>DispatchedStep(b)

C27_Witness ==
    /\ DispatchedStep(15)
    /\ current16thNote = 0
    /\ isMuted
    /\ nextNoteTime >= now + scheduleAheadTime

\* ceil((now + scheduleAheadTime - nextNoteTime) / sixteenth), 0 if negative
IterationBound ==
    LET x == now + scheduleAheadTime - nextNoteTime
        s == sixteenth(tempo)
    IN  IF x <= 0 THEN 0 ELSE (x + s - 1) \div s

\* C28: a tick's while loop runs at most
\* ceil((now + scheduleAheadTime - nextNoteTime) / sixteenth) times, for the
\* values at the start of the tick; a tick that runs when its timer falls
\* due, at tempo 100 or 135, dispatches at most one step.
C28_TickBounded ==
    [][(lastOp'.op \in {"tick", "staleTick"} /\ isPlaying) =>
          /\ Len(dispatched') <= IterationBound
          /\ (tempo \in {100, 135} /\ \A t \in timers : now <= t.due) =>
                Len(dispatched') <= 1 ]_vars

C28_Witness ==
    /\ lastOp.op = "tick"
    /\ tempo = 135
    /\ Len(dispatched) = 1
    /\ dispatched[1].time >= now + scheduleAheadTime - lookahead
    /\ session.steps >= 2

\* C29: within a session the steps passed to scheduleNote are 0, 1, ..., 15,
\* 0, 1, ... with none skipped and none repeated, and the n-th of them
\* (n = 0, 1, ...) has the time session start + 0.1 s + n sixteenth notes,
\* however late or bunched the callbacks run.
C29_GridFollowedInOrder ==
    [][lastOp'.op = "tick" =>
          LET n == Len(dispatched')
              k0 == session.steps
          IN  /\ session'.steps = k0 + n
              /\ current16thNote = k0 % 16
              /\ \A j \in 1 .. n :
                    /\ dispatched'[j].beat = (k0 + j - 1) % 16
                    /\ 4 * tempo * (dispatched'[j].time - (session.startedAt + Ms(100)))
                          = (k0 + j - 1) * 60 * TicksPerSecond ]_vars

C29_Witness ==
    /\ lastOp.op = "tick"
    /\ Len(dispatched) >= 3
    /\ session.steps > 16
    /\ \E j \in 2 .. Len(dispatched) : dispatched[j].beat = 0
    /\ dispatched[1].time < now

\* What the same callback would do were the object not muted.
UnmutedRun(u) == scheduler([Self EXCEPT !.isMuted = FALSE], u)

\* C30: a tick of a muted, playing session hands no voice to the engine, yet
\* dispatches the same steps at the same times and leaves current16thNote
\* and nextNoteTime exactly where the tick of an unmuted session would;
\* toggleMute itself does not touch the transport.  Steps that fell due while
\* muted are therefore passed, not replayed after unmuting.
C30_MuteDoesNotPauseGrid ==
    [][ /\ (lastOp'.op = "tick" /\ isMuted /\ isPlaying) =>
              /\ voices' = <<>>
              /\ \A r \in { UnmutedRun(u) : u \in Rand } :
                    /\ dispatched' = r.dispatched
                    /\ nextNoteTime' = r.nextNoteTime
                    /\ current16thNote' = r.current16thNote
                    /\ (Len(dispatched') > 0 /\ intensity = "high") => r.voices # <<>>
        /\ lastOp'.op = "toggleMute" =>
              UNCHANGED <<isPlaying, nextNoteTime, current16thNote, timers, timerID>> ]_vars

C30_Witness ==
    /\ lastOp.op = "tick"
    /\ isMuted /\ isPlaying
    /\ Len(dispatched) >= 2
    /\ voices = <<>>
    /\ session.steps >= 3

\* C31: wherever the context exists, the master gain's target level is 0 if
\* isMuted is true and 0.4 if it is false.
C31_FlagAndBusAgree ==
    ctx => /\ masterGain.node
           /\ masterGain.level = IF isMuted THEN 0 ELSE 40

\* C32: between handlers a tick timer is pending exactly when isPlaying is
\* true, and then it is the one timerID names; stopBGM, in whatever state it
\* is called, leaves isPlaying false and no timer pending; a startBGM that
\* returns leaves isPlaying true and exactly one timer pending.
C32_TimerPendingIffPlaying ==
    /\ isPlaying <=> timers # {}
    /\ isPlaying => /\ Cardinality(timers) = 1
                    /\ \A t \in timers : t.id = timerID
    /\ lastOp.op = "stopBGM" => ~isPlaying /\ timers = {}
    /\ (lastOp.op = "startBGM" /\ ~lastOp.threw) =>
          isPlaying /\ Cardinality(timers) = 1

C32_Witness ==
    /\ lastOp.op = "stopBGM"
    /\ ~session.began
    /\ ctx
    /\ ~isPlaying /\ timers = {}

\* C33: whenever the game state is IDLE or GAME_OVER the BGM transport is
\* stopped, whatever the outcome of startGame and whatever stopGame/resetGame
\* follow; BGM plays only in CONNECTING or PLAYING.
C33_BgmFollowsLifecycle ==
    /\ gameState \in {"IDLE", "GAME_OVER"} => ~isPlaying /\ timers = {}
    /\ isPlaying => gameState \in {"CONNECTING", "PLAYING"}

\* C34: after any sequence of hit, miss and bomb events from the zero score,
\* score is never negative, maxCombo is at least combo, a miss or a bomb
\* leaves combo at 0, and hits + misses is the number of events applied.
C34_ScoreInvariants ==
    /\ score.score >= 0
    /\ score.maxCombo >= score.combo
    /\ score.hits + score.misses = scoreEvents
    /\ (lastOp.op = "miss" \/ (lastOp.op = "checkHit" /\ lastOp.arg = "bomb")) =>
          score.combo = 0

C34_Witness ==
    /\ lastOp.op = "checkHit" /\ lastOp.arg = "bomb"
    /\ scoreEvents = 3
    /\ score = [score |-> 0, combo |-> 0, maxCombo |-> 2, hits |-> 2, misses |-> 1]

====
